---- MODULE Spec2Model ----
(***************************************************************************)
(* Model of src/clock.js, the animated Swiss railway clock widget.         *)
(*                                                                         *)
(* JavaScript numbers are modelled as decimal fixed-point integers: the    *)
(* number x is the integer x * ONE, rounded.  Math.exp, Math.log, Math.sin *)
(* and Math.cos are computed by range reduction and power series on that   *)
(* representation, so exp(0) = 1, sin(0) = 0, cos(0) = 1 and x * 0 = 0     *)
(* hold exactly, as they do in IEEE arithmetic, and every other value is   *)
(* accurate to a few units of 1/ONE.                                       *)
(***************************************************************************)
EXTENDS Integers, Sequences, FiniteSets, TLC

\* The fixed-point unit: 1.0 is ONE, one millisecond is ONE / 1000.
ONE == 10 * 1000

\* Math.PI
PI == 31416

\* undefined, for a property that holds an object once it is set
Undefined == [defined |-> FALSE]

\* Number of run() calls explored.
MaxRuns == 2

\* The most samples the wall clock passes between two events.
MaxSkip == 2

-----------------------------------------------------------------------------
(* Arithmetic on fixed-point numbers.                                      *)

Abs(a) == IF a < 0 THEN -a ELSE a

Sgn(a) == IF a < 0 THEN -1 ELSE 1

\* a / n for an integer n, rounded to nearest.
Quot(a, n) == Sgn(a) * ((Abs(a) + n \div 2) \div n)

MulAbs(a, b) ==
  LET a1 == a \div ONE
      a0 == a % ONE
      b1 == b \div ONE
      b0 == b % ONE
  IN a1 * b1 * ONE + a1 * b0 + a0 * b1 + (a0 * b0 + ONE \div 2) \div ONE

\* a * b
Mul(a, b) == Sgn(a) * Sgn(b) * MulAbs(Abs(a), Abs(b))

RECURSIVE DivDigits(_, _, _)
DivDigits(r, b, n) ==
  IF n = 0 THEN 0
  ELSE LET d == (r * 10) \div b
       IN d * (10 ^ (n - 1)) + DivDigits((r * 10) % b, b, n - 1)

DivAbs(a, b) == (a \div b) * ONE + DivDigits(a % b, b, 4)

\* a / b, b # 0
Div(a, b) == Sgn(a) * Sgn(b) * DivAbs(Abs(a), Abs(b))

RECURSIVE ExpSeries(_, _, _, _)
ExpSeries(y, term, k, n) ==
  IF k > n \/ term = 0 THEN 0
  ELSE term + ExpSeries(y, Quot(Mul(term, y), k + 1), k + 1, n)

\* Math.exp(y): exp(y) = exp(y/2)^2 down to |y| <= 1/2, then the series.
RECURSIVE Exp(_)
Exp(y) ==
  IF Abs(y) > ONE \div 2
  THEN LET h == Exp(Quot(y, 2)) IN Mul(h, h)
  ELSE ExpSeries(y, ONE, 0, 8)

RECURSIVE AtanhSeries(_, _, _, _)
AtanhSeries(z2, pow, k, n) ==
  IF k > n \/ pow = 0 THEN 0
  ELSE Quot(pow, 2 * k + 1) + AtanhSeries(z2, Mul(pow, z2), k + 1, n)

LogNear1(m) ==
  LET z == Div(m - ONE, m + ONE)
  IN 2 * AtanhSeries(Mul(z, z), z, 0, 8)

\* Math.log(x) for 0 < x: log(x) = log(2x) + log(1/2) up to x >= 1/2.
RECURSIVE Log(_)
Log(x) ==
  IF x < ONE \div 2 THEN Log(2 * x) + LogNear1(ONE \div 2)
  ELSE LogNear1(x)

RECURSIVE SinSeries(_, _, _, _)
SinSeries(r2, term, k, n) ==
  IF k > n \/ term = 0 THEN 0
  ELSE term + SinSeries(r2, -Quot(Mul(term, r2), (2 * k + 2) * (2 * k + 3)),
                        k + 1, n)

\* Math.sin(a)
Sin(a) ==
  LET r == a % (2 * PI)
      s == IF r > PI THEN r - 2 * PI ELSE r
      q == IF s > PI \div 2 THEN PI - s
           ELSE IF s < -(PI \div 2) THEN -PI - s ELSE s
  IN SinSeries(Mul(q, q), q, 0, 6)

RECURSIVE CosSeries(_, _, _, _)
CosSeries(r2, term, k, n) ==
  IF k > n \/ term = 0 THEN 0
  ELSE term + CosSeries(r2, -Quot(Mul(term, r2), (2 * k + 1) * (2 * k + 2)),
                        k + 1, n)

\* Math.cos(a)
Cos(a) ==
  LET r == a % (2 * PI)
      s == IF r > PI THEN 2 * PI - r ELSE r
  IN IF s > PI \div 2 THEN -CosSeries(Mul(PI - s, PI - s), ONE, 0, 6)
     ELSE CosSeries(Mul(s, s), ONE, 0, 6)

Min(a, b) == IF a < b THEN a ELSE b

-----------------------------------------------------------------------------
(* Configuration.                                                          *)

\* clock.BASE_SIZE = 100
BASE_SIZE == 100 * ONE

\* clock.DEFAULT_OPTIONS_
DEFAULT_OPTIONS_ ==
  [ size |-> 300 * ONE,
    fps |-> 30 * ONE,
    margin |-> 1000,
    shape |->
      [ marker_radius |-> 485000,
        hour_marker |-> [width |-> 35000, height |-> 120000],
        minute_marker |-> [width |-> 14000, height |-> 35000],
        hour_hand |-> [base |-> [width |-> 64000, height |-> 120000],
                       top |-> [width |-> 52000, height |-> 320000]],
        minute_hand |-> [base |-> [width |-> 52000, height |-> 120000],
                         top |-> [width |-> 36000, height |-> 460000]],
        second_hand |-> [width |-> 14000, base_height |-> 165000,
                         top_height |-> 312000, top_radius |-> 52500] ],
    behavior |->
      [ second_hand |-> [pause_seconds |-> 15000, decay |-> 1000,
                         decay_seconds |-> 5000],
        minute_hand |-> [decay |-> 1000, decay_seconds |-> 3000,
                         frequency |-> 6 * ONE],
        hour_hand |-> [decay |-> 1000, decay_seconds |-> ONE] ],
    style |->
      [ background |-> "white",
        border |-> "black",
        hour_marker |-> "black",
        minute_marker |-> "black",
        hour_hand |-> "black",
        minute_hand |-> "black",
        second_hand |-> "red",
        shadow |-> [color |-> "rgba(0, 0, 0, 0.2)", offsetX |-> 5 * ONE,
                    offsetY |-> 5 * ONE, blur |-> 2 * ONE] ] ]

\* Object.assign({}, defaults, opt): own top-level properties of opt replace
\* those of the defaults, whole.
Assign(defaults, o) ==
  [k \in DOMAIN defaults \cup DOMAIN o |->
     IF k \in DOMAIN o THEN o[k] ELSE defaults[k]]

\* The opt arguments explored: none, full and partial overrides of the
\* behavior, style and shape groups, and scalar overrides.
Opts ==
  << << >>,
     [size |-> 200 * ONE,
      margin |-> 0,
      behavior |->
        [ second_hand |-> [pause_seconds |-> 2 * ONE, decay |-> 5000,
                           decay_seconds |-> ONE],
          minute_hand |-> [decay |-> 5000, decay_seconds |-> 5000,
                           frequency |-> ONE],
          hour_hand |-> [decay |-> 5000, decay_seconds |-> 2 * ONE] ]],
     [fps |-> 60 * ONE,
      behavior |->
        [ second_hand |-> [pause_seconds |-> 0, decay |-> 1000,
                           decay_seconds |-> ONE],
          minute_hand |-> [decay |-> 2000, decay_seconds |-> 3000,
                           frequency |-> 5000],
          hour_hand |-> [decay |-> 1000, decay_seconds |-> 5000] ]],
     [behavior |->
        [ second_hand |-> [pause_seconds |-> 2 * ONE, decay |-> 1000,
                           decay_seconds |-> 5000] ]],
     [behavior |->
        [ second_hand |-> [pause_seconds |-> 15000, decay |-> ONE,
                           decay_seconds |-> 5000],
          minute_hand |-> [decay |-> 1000, decay_seconds |-> 3000,
                           frequency |-> 6 * ONE],
          hour_hand |-> [decay |-> 1000, decay_seconds |-> ONE] ]],
     [style |-> [second_hand |-> "blue"]],
     [shape |-> [marker_radius |-> 450000]] >>

\* The Date samples explored, in the order of one day: <<hours, minutes,
\* seconds, milliseconds>>.  They lie around the start of the minute, around
\* the sweep/pause boundary of each pause_seconds above (58.0 s and 58.5 s)
\* and at the end of the minute.
Samples ==
  << <<0, 0, 0, 0>>, <<0, 0, 0, 100>>, <<0, 0, 1, 0>>, <<0, 0, 30, 0>>,
     <<0, 0, 57, 999>>, <<0, 0, 58, 0>>, <<0, 0, 58, 1>>, <<0, 0, 58, 499>>,
     <<0, 0, 58, 500>>, <<0, 0, 58, 750>>, <<0, 0, 59, 999>>,
     <<5, 1, 0, 0>>, <<5, 30, 0, 0>>, <<13, 59, 0, 0>>, <<13, 59, 58, 500>>,
     <<13, 59, 59, 999>> >>

\* new Date() at the i-th sample
Date(i) ==
  [hours |-> Samples[i][1], minutes |-> Samples[i][2],
   seconds |-> Samples[i][3], ms |-> Samples[i][4]]

-----------------------------------------------------------------------------
VARIABLES
  opt,        \* the opt argument the constructor was given: its index in Opts
  canvas_,    \* this.canvas_: its width and height
  context_,   \* the transform of this.context_
  interval_,  \* this.interval_
  margin_,    \* this.margin_
  shape_,     \* this.shape_
  behavior_,  \* this.behavior_
  style_,     \* this.style_
  quads_,     \* this.quads_
  buffer,     \* this.buffer
  timers,     \* intervals installed by window.setInterval
  runs,       \* run() calls so far
  wall,       \* the wall clock: the index in Samples of what new Date() returns
  now,        \* the Date sampled by the last draw()
  pixels,     \* what the last draw() painted on the canvas, back to front
  frames,     \* draw() calls so far: 0, 1, or 2 for two and more
  error       \* what the last handler threw

vars ==
  << opt, canvas_, context_, interval_, margin_, shape_, behavior_, style_,
     quads_, buffer, timers, runs, wall, now, pixels, frames, error >>

config == << opt, canvas_, interval_, margin_, shape_, behavior_, style_ >>

IdentityTransform == [a |-> ONE, e |-> 0, f |-> 0]

\* clock.Clock = function(e, opt)
Clock(i) ==
  LET o == Assign(DEFAULT_OPTIONS_, Opts[i])
  IN /\ opt = i
     /\ canvas_ = [width |-> o.size, height |-> o.size]
     /\ context_ = IdentityTransform
     /\ interval_ = Div(1000 * ONE, o.fps)
     /\ margin_ = o.margin
     /\ shape_ = o.shape
     /\ behavior_ = o.behavior
     /\ style_ = o.style

Init ==
  /\ \E i \in 1..Len(Opts) : Clock(i)
  /\ quads_ = Undefined
  /\ buffer = Undefined
  /\ timers = 0
  /\ runs = 0
  /\ wall \in 1..Len(Samples)
  /\ now = Undefined
  /\ pixels = << >>
  /\ frames = 0
  /\ error = "none"

-----------------------------------------------------------------------------
(* Geometry and background.                                                *)

\* clock.Clock.prototype.prepareContext: translate to the centre, then
\* scale, composed onto the transform ctx already has.
prepareContext(ctx) ==
  LET tx == Div(canvas_.width, 2 * ONE)
      ty == Div(canvas_.height, 2 * ONE)
      original_size == Min(canvas_.width, canvas_.height)
      scale == Div(original_size, Div(BASE_SIZE, ONE - 2 * margin_))
  IN [a |-> Mul(ctx.a, scale),
      e |-> ctx.e + Mul(ctx.a, tx),
      f |-> ctx.f + Mul(ctx.a, ty)]

\* clock.Clock.prototype.makeQuad
makeQuad(topWidth, topHeight, baseWidth, baseHeight) ==
  [topLeft |-> [x |-> Div(-topWidth, 2 * ONE), y |-> -topHeight],
   bottomRight |-> [x |-> Div(baseWidth, 2 * ONE), y |-> baseHeight]]

\* Reading this.shape_.<part>.width throws a TypeError when the part is
\* undefined.
ShapeParts ==
  {"hour_marker", "minute_marker", "hour_hand", "minute_hand", "second_hand"}

\* clock.Clock.prototype.computeQuads: the value assigned to this.quads_,
\* or Undefined when building it throws.
computeQuads ==
  IF ~(ShapeParts \subseteq DOMAIN shape_) THEN Undefined
  ELSE [defined |-> TRUE,
        hour_marker |->
          makeQuad(shape_.hour_marker.width, shape_.marker_radius,
                   shape_.hour_marker.width,
                   shape_.hour_marker.height - shape_.marker_radius),
        minute_marker |->
          makeQuad(shape_.minute_marker.width, shape_.marker_radius,
                   shape_.minute_marker.width,
                   shape_.minute_marker.height - shape_.marker_radius),
        hour_hand |->
          makeQuad(shape_.hour_hand.top.width, shape_.hour_hand.top.height,
                   shape_.hour_hand.base.width, shape_.hour_hand.base.height),
        minute_hand |->
          makeQuad(shape_.minute_hand.top.width,
                   shape_.minute_hand.top.height,
                   shape_.minute_hand.base.width,
                   shape_.minute_hand.base.height),
        second_hand |->
          makeQuad(shape_.second_hand.width, shape_.second_hand.top_height,
                   shape_.second_hand.width, shape_.second_hand.base_height)]

\* ctx.fillStyle = this.style_.<key>: assigning undefined leaves the style
\* the context had.
SetStyle(prev, key) == IF key \in DOMAIN style_ THEN style_[key] ELSE prev

\* clock.Clock.prototype.prepareBackground, given this.quads_: the new
\* this.buffer and what the method threw.  The face is painted before the
\* first marker reads this.quads_.hour_marker.
prepareBackground(q) ==
  LET face == [defined |-> TRUE,
               width |-> canvas_.width,
               height |-> canvas_.height,
               transform |-> prepareContext(IdentityTransform),
               fill |-> SetStyle("#000000", "background"),
               stroke |-> SetStyle("#000000", "border")]
  IN IF q.defined
     THEN [buffer |-> face @@ [hour_markers |-> 12, minute_markers |-> 12 * 4],
           error |-> "none"]
     ELSE [buffer |-> face @@ [hour_markers |-> 0, minute_markers |-> 0],
           error |-> "TypeError"]

-----------------------------------------------------------------------------
(* The angle functions.                                                    *)

\* now.getMilliseconds() / 1000.0 + now.getSeconds()
SecondsOf(d) == Div(d.ms * ONE, 1000 * ONE) + d.seconds * ONE

\* computeSecondsAngle with the boundary test written t > cycle.
computeSecondsAngle_gt(d) ==
  LET cycle == 60 * ONE - behavior_.second_hand.pause_seconds
      t == SecondsOf(d)
      v == Div(2 * PI, cycle)
      l == Div(Log(behavior_.second_hand.decay),
               behavior_.second_hand.decay_seconds)
  IN IF t > cycle
     THEN LET x == t - cycle IN Mul(Mul(v, x), Exp(Mul(l, x)))
     ELSE Mul(Mul(v, t), ONE - Exp(Mul(l, t)))

\* computeSecondsAngle with the pause branch scaled by t instead of x.
computeSecondsAngle_pauseFromT(d) ==
  LET cycle == 60 * ONE - behavior_.second_hand.pause_seconds
      t == SecondsOf(d)
      v == Div(2 * PI, cycle)
      l == Div(Log(behavior_.second_hand.decay),
               behavior_.second_hand.decay_seconds)
  IN IF t >= cycle
     THEN LET x == t - cycle IN Mul(Mul(v, t), Exp(Mul(l, x)))
     ELSE Mul(Mul(v, t), ONE - Exp(Mul(l, t)))

\* computeSecondsAngle with the sweep factor written 1 + exp(l * t).
computeSecondsAngle_plus(d) ==
  LET cycle == 60 * ONE - behavior_.second_hand.pause_seconds
      t == SecondsOf(d)
      v == Div(2 * PI, cycle)
      l == Div(Log(behavior_.second_hand.decay),
               behavior_.second_hand.decay_seconds)
  IN IF t >= cycle
     THEN LET x == t - cycle IN Mul(Mul(v, x), Exp(Mul(l, x)))
     ELSE Mul(Mul(v, t), ONE + Exp(Mul(l, t)))

\* computeSecondsAngle made frame-driven: once a frame has been painted, the
\* hand advances from the painted angle by one frame interval.
computeSecondsAngle_integrating(d) ==
  LET cycle == 60 * ONE - behavior_.second_hand.pause_seconds
      t == SecondsOf(d)
      v == Div(2 * PI, cycle)
      l == Div(Log(behavior_.second_hand.decay),
               behavior_.second_hand.decay_seconds)
  IN IF Len(pixels) = 4
     THEN pixels[4].angle + Mul(v, Div(interval_, 1000 * ONE))
     ELSE IF t >= cycle
     THEN LET x == t - cycle IN Mul(Mul(v, x), Exp(Mul(l, x)))
     ELSE Mul(Mul(v, t), ONE - Exp(Mul(l, t)))

\* clock.Clock.prototype.computeSecondsAngle
computeSecondsAngle(d) ==
  LET cycle == 60 * ONE - behavior_.second_hand.pause_seconds
      t == SecondsOf(d)
      v == Div(2 * PI, cycle)
      l == Div(Log(behavior_.second_hand.decay),
               behavior_.second_hand.decay_seconds)
  IN IF t >= cycle
     THEN LET x == t - cycle IN Mul(Mul(v, x), Exp(Mul(l, x)))
     ELSE Mul(Mul(v, t), ONE - Exp(Mul(l, t)))

\* computeMinutesAngle with sin and cos exchanged.
computeMinutesAngle_swapped(d) ==
  LET delta == Div(PI, 30 * ONE)
      angle == Mul(delta, d.minutes * ONE)
      t == SecondsOf(d)
      l == Div(Log(behavior_.minute_hand.decay),
               behavior_.minute_hand.decay_seconds)
      w == Mul(2 * PI, behavior_.minute_hand.frequency)
      wt == Mul(w, t)
  IN angle + Mul(Mul(delta, Exp(Mul(l, t))),
                 Mul(Div(l, w), Cos(wt)) - Sin(wt))

\* clock.Clock.prototype.computeMinutesAngle
computeMinutesAngle(d) ==
  LET delta == Div(PI, 30 * ONE)
      angle == Mul(delta, d.minutes * ONE)
      t == SecondsOf(d)
      l == Div(Log(behavior_.minute_hand.decay),
               behavior_.minute_hand.decay_seconds)
      w == Mul(2 * PI, behavior_.minute_hand.frequency)
      wt == Mul(w, t)
  IN angle + Mul(Mul(delta, Exp(Mul(l, t))),
                 Mul(Div(l, w), Sin(wt)) - Cos(wt))

\* clock.Clock.prototype.computeHoursAngle
computeHoursAngle(d) ==
  LET t == SecondsOf(d)
      delta == Div(PI, 360 * ONE)
      angle == Mul((d.minutes + 60 * d.hours) * ONE, delta)
      l == Div(Log(behavior_.hour_hand.decay),
               behavior_.hour_hand.decay_seconds)
      lt == Mul(l, t)
  IN angle + Mul(Mul(delta, lt - ONE), Exp(lt))

-----------------------------------------------------------------------------
(* Drawing.                                                                *)

\* clock.Clock.prototype.drawQuad: the path filled for one hand.
drawQuad(shape, quad, angle, fill) ==
  [shape |-> shape, quad |-> quad, angle |-> angle, fill |-> fill]

\* clock.Clock.prototype.drawHands: the hands painted, back to front, and
\* what the method threw.  Reading this.style_.shadow.color or
\* this.behavior_.<hand>.decay of an undefined group member throws.
drawHands(d) ==
  IF "shadow" \notin DOMAIN style_
  THEN [layers |-> << >>, error |-> "TypeError"]
  ELSE IF "hour_hand" \notin DOMAIN behavior_
  THEN [layers |-> << >>, error |-> "TypeError"]
  ELSE
    LET fillH == SetStyle("#000000", "hour_hand")
        hour == drawQuad("hour_hand", quads_.hour_hand,
                         computeHoursAngle(d), fillH)
    IN IF "minute_hand" \notin DOMAIN behavior_
       THEN [layers |-> << hour >>, error |-> "TypeError"]
       ELSE
         LET fillM == SetStyle(fillH, "minute_hand")
             minute == drawQuad("minute_hand", quads_.minute_hand,
                                computeMinutesAngle(d), fillM)
         IN IF "second_hand" \notin DOMAIN behavior_
            THEN [layers |-> << hour, minute >>, error |-> "TypeError"]
            ELSE
              LET fillS == SetStyle(fillM, "second_hand")
                  second == drawQuad("second_hand", quads_.second_hand,
                                     computeSecondsAngle(d), fillS)
              IN [layers |-> << hour, minute, second >>, error |-> "none"]

\* clock.Clock.prototype.drawBackground: the canvas is cleared and the
\* buffer copied onto it.
drawBackground == << [shape |-> "background", fill |-> buffer.fill] >>

-----------------------------------------------------------------------------
(* Operations.                                                             *)

\* run with the interval installed before the setup, so that it is installed
\* also when the setup throws.
run_timerFirst ==
  /\ runs < MaxRuns
  /\ runs' = runs + 1
  /\ timers' = timers + 1
  /\ context_' = prepareContext(context_)
  /\ LET q == computeQuads
         bg == prepareBackground(q)
     IN IF q.defined
        THEN /\ quads_' = q
             /\ buffer' = bg.buffer
             /\ error' = bg.error
        ELSE /\ error' = "TypeError"
             /\ UNCHANGED << quads_, buffer >>
  /\ UNCHANGED << config, wall, now, pixels, frames >>

\* clock.Clock.prototype.run
run ==
  /\ runs < MaxRuns
  /\ runs' = runs + 1
  /\ context_' = prepareContext(context_)
  /\ LET q == computeQuads
         bg == prepareBackground(q)
     IN IF q.defined
        THEN /\ quads_' = q
             /\ buffer' = bg.buffer
             /\ error' = bg.error
             /\ timers' = timers + 1
        ELSE /\ error' = "TypeError"
             /\ UNCHANGED << quads_, buffer, timers >>
  /\ UNCHANGED << config, wall, now, pixels, frames >>

\* resetTransform that also resets the behavior to the defaults.
resetTransform_resetsBehavior ==
  /\ context_' = prepareContext(IdentityTransform)
  /\ LET bg == prepareBackground(quads_)
     IN /\ buffer' = bg.buffer
        /\ error' = bg.error
  /\ behavior_' = DEFAULT_OPTIONS_.behavior
  /\ UNCHANGED << opt, canvas_, interval_, margin_, shape_, style_, quads_,
                  timers, runs, wall, now, pixels, frames >>

\* clock.Clock.prototype.resetTransform
resetTransform ==
  /\ context_' = prepareContext(IdentityTransform)
  /\ LET bg == prepareBackground(quads_)
     IN /\ buffer' = bg.buffer
        /\ error' = bg.error
  /\ UNCHANGED << config, quads_, timers, runs, wall, now, pixels, frames >>

\* clock.Clock.prototype.draw, called by an installed interval
draw ==
  /\ timers > 0
  /\ IF ~buffer.defined
     THEN /\ pixels' = << >>
          /\ error' = "TypeError"
          /\ now' = now
     ELSE LET date == Date(wall)
              hands == drawHands(date)
          IN /\ pixels' = drawBackground \o hands.layers
             /\ error' = hands.error
             /\ now' = [defined |-> TRUE, date |-> date]
  /\ frames' = Min(frames + 1, 2)
  /\ UNCHANGED << config, context_, quads_, buffer, timers, runs, wall >>

\* Time passes: the wall clock moves on by one or more samples, into the
\* next day after the last one.
tick ==
  /\ \E k \in 1..MaxSkip : wall' = ((wall - 1 + k) % Len(Samples)) + 1
  /\ UNCHANGED << config, context_, quads_, buffer, timers, runs, now,
                  pixels, frames, error >>

Next == run \/ resetTransform \/ draw \/ tick

Spec == Init /\ [][Next]_vars

-----------------------------------------------------------------------------
(* The formulas the properties are stated with: the angles as functions of *)
(* a Date and of behavior parameters alone.                                *)

Lambda(b) == Div(Log(b.decay), b.decay_seconds)

Cycle(b) == 60 * ONE - b.pause_seconds

Velocity(b) == Div(2 * PI, Cycle(b))

\* v * t * (1 - exp(l * t))
Phase1(t, b) == Mul(Mul(Velocity(b), t), ONE - Exp(Mul(Lambda(b), t)))

\* v * x * exp(l * x), x = t - cycle
Phase2(t, b) ==
  LET x == t - Cycle(b)
  IN Mul(Mul(Velocity(b), x), Exp(Mul(Lambda(b), x)))

SecondsAngle(d, b) ==
  IF SecondsOf(d) < Cycle(b) THEN Phase1(SecondsOf(d), b)
  ELSE Phase2(SecondsOf(d), b)

MinutesAngle(d, b) ==
  LET t == SecondsOf(d)
      w == Mul(2 * PI, b.frequency)
  IN Mul(Div(PI, 30 * ONE), d.minutes * ONE)
     + Mul(Mul(Div(PI, 30 * ONE), Exp(Mul(Lambda(b), t))),
           Mul(Div(Lambda(b), w), Sin(Mul(w, t))) - Cos(Mul(w, t)))

HoursAngle(d, b) ==
  LET t == SecondsOf(d)
  IN Mul((d.minutes + 60 * d.hours) * ONE, Div(PI, 360 * ONE))
     + Mul(Mul(Div(PI, 360 * ONE), Mul(Lambda(b), t) - ONE),
           Exp(Mul(Lambda(b), t)))

\* 0 < decay < 1 and decay_seconds > 0
ValidDecay(b) == 0 < b.decay /\ b.decay < ONE /\ b.decay_seconds > 0

ValidSecond(b) ==
  ValidDecay(b) /\ 0 <= b.pause_seconds /\ b.pause_seconds < 60 * ONE

\* The last frame shows all three hands.
Painted == Len(pixels) = 4

\* t of the Date the last frame sampled.
T == SecondsOf(now.date)

\* The behavior of a clock just constructed from the same opt.
FreshBehavior == Assign(DEFAULT_OPTIONS_, Opts[opt]).behavior

-----------------------------------------------------------------------------
(* Properties.                                                             *)

\* C1: the second hand's angle is the phase-1 value v*t*(1 - exp(l*t)) for
\* every t < cycle and the phase-2 value v*x*exp(l*x), x = t - cycle, for
\* every t >= cycle, t = cycle included, where cycle = 60 - pause_seconds.
C1_PhaseSplit ==
  Painted =>
    pixels[4].angle =
      IF T < Cycle(behavior_.second_hand)
      THEN Phase1(T, behavior_.second_hand)
      ELSE Phase2(T, behavior_.second_hand)

\* A frame sampled in the pause, where the two phases give different angles.
C1_Witness ==
  /\ Painted
  /\ T >= Cycle(behavior_.second_hand)
  /\ Phase1(T, behavior_.second_hand) # Phase2(T, behavior_.second_hand)
  /\ pixels[4].angle = Phase2(T, behavior_.second_hand)

\* C2: a frame changes nothing of the clock but what it paints, and the
\* angles it paints are those a clock just constructed would compute for the
\* Date the frame sampled, whatever frames were painted before and whenever.
C2_Stateless ==
  [][(pixels' # pixels \/ now' # now \/ frames' # frames) =>
       /\ UNCHANGED << config, context_, quads_, buffer, timers, runs >>
       /\ Len(pixels') = 4 =>
            /\ pixels'[2].angle = HoursAngle(now'.date, FreshBehavior.hour_hand)
            /\ pixels'[3].angle =
                 MinutesAngle(now'.date, FreshBehavior.minute_hand)
            /\ pixels'[4].angle =
                 SecondsAngle(now'.date, FreshBehavior.second_hand)]_vars

\* A frame painted after earlier frames, at the end of a minute.
C2_Witness ==
  /\ frames = 2
  /\ Painted
  /\ now.date.seconds = 59
  /\ pixels[4].angle = SecondsAngle(now.date, FreshBehavior.second_hand)

\* C3 as stated: at t = cycle the phase-1 expression and the phase-2
\* expression have the same value, for valid parameters.
C3_BranchesAgreeAtCycle ==
  (Painted /\ ValidSecond(behavior_.second_hand)
     /\ T = Cycle(behavior_.second_hand)) =>
    Phase1(T, behavior_.second_hand) = Phase2(T, behavior_.second_hand)

\* C3 as amended: at t = cycle, for valid parameters, the phase-2 expression
\* is 0 and the phase-1 expression is strictly positive, and the angle
\* returned is the phase-2 one: the hand jumps onto the mark.
C3_JumpAtCycle ==
  (Painted /\ ValidSecond(behavior_.second_hand)
     /\ T = Cycle(behavior_.second_hand)) =>
    /\ Phase2(T, behavior_.second_hand) = 0
    /\ Phase1(T, behavior_.second_hand) > 0
    /\ pixels[4].angle = Phase2(T, behavior_.second_hand)

\* A frame sampled at t = cycle whose angle is not the phase-1 value.
C3_Witness ==
  /\ Painted
  /\ ValidSecond(behavior_.second_hand)
  /\ T = Cycle(behavior_.second_hand)
  /\ pixels[4].angle # Phase1(T, behavior_.second_hand)

\* C4: a frame sampled at t exactly cycle = 60 - pause_seconds paints the
\* second hand at angle 0, for valid second-hand parameters.
C4_LandsOnMark ==
  (Painted /\ ValidSecond(behavior_.second_hand)
     /\ T = 60 * ONE - behavior_.second_hand.pause_seconds) =>
    pixels[4].angle = 0

\* A frame sampled at t = cycle with a pause other than the default.
C4_Witness ==
  /\ Painted
  /\ ValidSecond(behavior_.second_hand)
  /\ behavior_.second_hand.pause_seconds = 2 * ONE
  /\ T = 58 * ONE
  /\ pixels[4].angle = 0

\* C5: at t = 0 the minute hand's angle is exactly angle0 - pi/30, where
\* angle0 = (pi/30) * minute, for valid minute-hand parameters.
C5_MinuteStartsOneMarkBack ==
  (Len(pixels) >= 3 /\ T = 0 /\ ValidDecay(behavior_.minute_hand)
     /\ behavior_.minute_hand.frequency > 0) =>
    pixels[3].angle =
      Mul(Div(PI, 30 * ONE), now.date.minutes * ONE) - Div(PI, 30 * ONE)

\* A frame sampled at the start of minute 30.
C5_Witness ==
  /\ Len(pixels) >= 3
  /\ T = 0
  /\ now.date.minutes = 30
  /\ ValidDecay(behavior_.minute_hand)
  /\ behavior_.minute_hand.frequency > 0
  /\ pixels[3].angle = 29 * Div(PI, 30 * ONE)

\* C6: no frame computes angles from a behavior with decay <= 0, decay >= 1
\* or decay_seconds <= 0, such a configuration having been rejected at
\* construction.
C6_OutOfRangeRejected ==
  Painted =>
    \A h \in DOMAIN behavior_ : ValidDecay(behavior_[h])

\* C7: no operation changes this.behavior_.
C7_BehaviorUnchanged == [][behavior_' = behavior_]_vars

\* An overridden behavior after two run() calls, a frame, and a
\* resetTransform() that undid the second run's compounded transform.
C7_Witness ==
  /\ opt = 2
  /\ runs = 2
  /\ frames > 0
  /\ context_ = prepareContext(IdentityTransform)
  /\ behavior_ = Opts[2].behavior

\* C8: every nested default of shape, behavior and style that opt does not
\* mention is present in the clock's configuration.
C8_DeepMerge ==
  /\ DOMAIN DEFAULT_OPTIONS_.shape \subseteq DOMAIN shape_
  /\ DOMAIN DEFAULT_OPTIONS_.behavior \subseteq DOMAIN behavior_
  /\ DOMAIN DEFAULT_OPTIONS_.style \subseteq DOMAIN style_

\* C9: in the sweep, t < cycle, the second hand's angle satisfies
\* 0 <= angle <= v*t < 2*pi, and it is 0 at t = 0, for valid parameters.
C9_NoOvershoot ==
  (Painted /\ ValidSecond(behavior_.second_hand)
     /\ T < Cycle(behavior_.second_hand)) =>
    /\ 0 <= pixels[4].angle
    /\ pixels[4].angle <= Mul(Velocity(behavior_.second_hand), T)
    /\ Mul(Velocity(behavior_.second_hand), T) < 2 * PI
    /\ T = 0 => pixels[4].angle = 0

\* A frame sampled in the sweep, the hand strictly between the mark and the
\* linear position.
C9_Witness ==
  /\ Painted
  /\ ValidSecond(behavior_.second_hand)
  /\ 0 < T
  /\ T < Cycle(behavior_.second_hand)
  /\ 0 < pixels[4].angle
  /\ pixels[4].angle < Mul(Velocity(behavior_.second_hand), T)

\* C10: while an interval is installed this.quads_ and this.buffer are set,
\* the buffer with all its markers; every frame paints the background first,
\* and a frame that paints the hands paints hour, minute, second in that
\* order, each at the angle of the one Date the frame sampled.
C10_SetupThenOrderedFrame ==
  /\ timers > 0 =>
       /\ quads_.defined
       /\ buffer.defined
       /\ buffer.hour_markers = 12
       /\ buffer.minute_markers = 48
  /\ frames > 0 => (Len(pixels) >= 1 /\ pixels[1].shape = "background")
  /\ Painted =>
       /\ pixels[2].shape = "hour_hand"
       /\ pixels[3].shape = "minute_hand"
       /\ pixels[4].shape = "second_hand"
       /\ pixels[2].angle = HoursAngle(now.date, behavior_.hour_hand)
       /\ pixels[3].angle = MinutesAngle(now.date, behavior_.minute_hand)
       /\ pixels[4].angle = SecondsAngle(now.date, behavior_.second_hand)

\* A complete frame painted by an installed interval.
C10_Witness ==
  /\ timers > 0
  /\ frames > 0
  /\ Painted
  /\ error = "none"

====
